---- MODULE Spec2Model ----
(***************************************************************************)
(* Model of elementi/js/wikidata-api.js: the WikidataAPI query client and  *)
(* extraction helpers, and the ProjectDetailApp page controller, run on a  *)
(* JavaScript event loop (FIFO microtask queue, network completions as     *)
(* macrotasks).                                                            *)
(*                                                                         *)
(* JavaScript values are modelled with uniform records.  A string field    *)
(* holding "" stands for a falsy field (undefined or the empty string).    *)
(***************************************************************************)
EXTENDS Integers, Sequences, FiniteSets, TLC

\* ------------------------------------------------------------------ bounds

\* Number of distinct entity ids a search may return.
NumIds == 2
\* Longest search result list the API returns in the model.
MaxResults == 2

QNames == <<"Q1", "Q2", "Q3", "Q4">>
Ids == {QNames[i] : i \in 1..NumIds}

\* ------------------------------------------------------- entity documents

\* datavalue.value shapes of the API
EntityValue(id) ==
    [isString |-> FALSE, str |-> "", id |-> id, text |-> "", amount |-> "", time |-> ""]
StringValue(s) ==
    [isString |-> TRUE, str |-> s, id |-> "", text |-> "", amount |-> "", time |-> ""]
TextValue(t) ==
    [isString |-> FALSE, str |-> "", id |-> "", text |-> t, amount |-> "", time |-> ""]
QuantityValue(a) ==
    [isString |-> FALSE, str |-> "", id |-> "", text |-> "", amount |-> a, time |-> ""]
TimeValue(t) ==
    [isString |-> FALSE, str |-> "", id |-> "", text |-> "", amount |-> "", time |-> t]
\* a globe coordinate: none of id, text, amount, time
CoordinateValue ==
    [isString |-> FALSE, str |-> "", id |-> "", text |-> "", amount |-> "", time |-> ""]

Statement(v) == [mainsnak |-> [hasDatavalue |-> TRUE, datavalue |-> [value |-> v]]]
\* snaktype novalue / somevalue: no datavalue
NoValueStatement ==
    [mainsnak |-> [hasDatavalue |-> FALSE, datavalue |-> [value |-> CoordinateValue]]]

NoMap == [l \in {} |-> [value |-> ""]]
NoClaims == [p \in {} |-> <<>>]

\* every field of an artist or work record the page displays, entity-valued
\* places and materials, a time-valued date of the documented form
FullEntity ==
    [hasLabels |-> TRUE,
     labels |-> [l \in {"it", "en"} |-> [value |-> IF l = "it" THEN "Etichetta" ELSE "Label"]],
     hasDescriptions |-> TRUE,
     descriptions |-> [l \in {"it"} |-> [value |-> "Descrizione italiana"]],
     hasClaims |-> TRUE,
     claims |-> [p \in {"P569", "P571", "P19", "P27", "P135", "P186", "P2049", "P136"} |->
        CASE p = "P569" -> <<Statement(TimeValue("+1947-04-03T00:00:00Z"))>>
          [] p = "P571" -> <<Statement(TimeValue("+1962-00-00T00:00:00Z"))>>
          [] p = "P19" -> <<Statement(EntityValue("Q1")), Statement(EntityValue("Q2"))>>
          [] p = "P27" -> <<Statement(EntityValue("Q38"))>>
          [] p = "P135" -> <<Statement(TextValue("Arte povera"))>>
          [] p = "P186" -> <<Statement(EntityValue("Q287"))>>
          [] p = "P2049" -> <<Statement(QuantityValue("+120"))>>
          [] OTHER -> <<Statement(TextValue("scultura"))>>]]

\* an entity with no labels, descriptions or claims member
BareEntity ==
    [hasLabels |-> FALSE, labels |-> NoMap,
     hasDescriptions |-> FALSE, descriptions |-> NoMap,
     hasClaims |-> FALSE, claims |-> NoClaims]

\* no Italian label or description; scalar values of every non-entity shape
ScalarEntity ==
    [hasLabels |-> TRUE,
     labels |-> [l \in {"en"} |-> [value |-> "Label"]],
     hasDescriptions |-> TRUE,
     descriptions |-> [l \in {"en"} |-> [value |-> "English description"]],
     hasClaims |-> TRUE,
     claims |-> [p \in {"P569", "P571", "P19", "P27", "P135", "P186", "P2049", "P136"} |->
        CASE p = "P569" -> <<NoValueStatement>>
          [] p = "P571" -> <<Statement(StringValue("1962"))>>
          [] p = "P19" -> <<Statement(StringValue("Garessio"))>>
          [] p = "P27" -> <<Statement(TextValue("Italia"))>>
          [] p = "P135" -> <<Statement(CoordinateValue)>>
          [] p = "P186" -> <<Statement(StringValue(""))>>
          [] p = "P2049" -> <<Statement(QuantityValue("+3.5"))>>
          [] OTHER -> <<Statement(TimeValue("+1968-01-01T00:00:00Z"))>>]]

\* the date properties hold an entity reference
DateRefEntity ==
    [hasLabels |-> TRUE,
     labels |-> [l \in {"it"} |-> [value |-> "Etichetta"]],
     hasDescriptions |-> FALSE, descriptions |-> NoMap,
     hasClaims |-> TRUE,
     claims |-> [p \in {"P569", "P571"} |-> <<Statement(EntityValue("Q2"))>>]]

\* dates outside the documented form (a BCE year, a five-digit year)
OddDateEntity ==
    [hasLabels |-> TRUE,
     labels |-> [l \in {"it"} |-> [value |-> "Etichetta"]],
     hasDescriptions |-> TRUE,
     descriptions |-> [l \in {"it"} |-> [value |-> "Descrizione italiana"]],
     hasClaims |-> TRUE,
     claims |-> [p \in {"P569", "P571"} |->
        IF p = "P569" THEN <<Statement(TimeValue("-0500-00-00T00:00:00Z"))>>
        ELSE <<Statement(TimeValue("+12000-01-01T00:00:00Z"))>>]]

\* the entity documents the API returns in the model
EntityDocs == {FullEntity, BareEntity, ScalarEntity, DateRefEntity, OddDateEntity}

\* ------------------------------------------------- WikidataAPI: pure helpers

endpoint == "https://www.wikidata.org/wiki/Special:EntityData/"

LabelFallback == "Informazione non disponibile"
DescriptionFallback == "Descrizione non disponibile"
PropertyFallback == "Non specificato"
DateFallback == "Data non disponibile"

\* variant of getLabel that falls back to a label in another language
getLabelAnyLanguage(entity, language) ==
    IF entity.hasLabels /\ DOMAIN entity.labels # {}
    THEN IF language \in DOMAIN entity.labels THEN entity.labels[language].value
         ELSE entity.labels[CHOOSE l \in DOMAIN entity.labels : TRUE].value
    ELSE LabelFallback

getLabel(entity, language) ==
    IF entity.hasLabels /\ language \in DOMAIN entity.labels
    THEN entity.labels[language].value
    ELSE LabelFallback

getDescription(entity, language) ==
    IF entity.hasDescriptions /\ language \in DOMAIN entity.descriptions
    THEN entity.descriptions[language].value
    ELSE DescriptionFallback

\* What getPropertyValue returns: a string, or the promise of
\* getEntityLabelById(id) (whose call has already started getEntity(id)).
StringResult(s) == [isPromise |-> FALSE, s |-> s, id |-> ""]
PromiseResult(id) == [isPromise |-> TRUE, s |-> "", id |-> id]

\* variant of PropertyResult that takes a string value for an entity id
PropertyResultStringAsId(value) ==
    IF value.id # "" THEN PromiseResult(value.id)
    ELSE IF value.isString /\ value.str # "" THEN PromiseResult(value.str)
    ELSE IF value.text # "" THEN StringResult(value.text)
    ELSE IF value.amount # "" THEN StringResult(value.amount)
    ELSE IF value.time # "" THEN StringResult(value.time)
    ELSE StringResult(PropertyFallback)

PropertyResult(value) ==
    IF value.id # "" THEN PromiseResult(value.id)
    ELSE IF value.isString THEN StringResult(value.str)
    ELSE IF value.text # "" THEN StringResult(value.text)
    ELSE IF value.amount # "" THEN StringResult(value.amount)
    ELSE IF value.time # "" THEN StringResult(value.time)
    ELSE StringResult(PropertyFallback)

getPropertyValue(entity, propertyId) ==
    IF entity.hasClaims /\ propertyId \in DOMAIN entity.claims
    THEN LET claim == entity.claims[propertyId][1] IN
         IF claim.mainsnak.hasDatavalue
         THEN PropertyResult(claim.mainsnak.datavalue.value)
         ELSE StringResult(PropertyFallback)
    ELSE StringResult(PropertyFallback)

Digits == {"0", "1", "2", "3", "4", "5", "6", "7", "8", "9"}
CharAt(s, i) == SubSeq(s, i, i)

\* /\+(\d{4})-\d{2}-\d{2}/ matches s at position i
DateMatchAt(s, i) ==
    /\ i + 10 <= Len(s)
    /\ CharAt(s, i) = "+"
    /\ \A k \in {1, 2, 3, 4, 6, 7, 9, 10} : CharAt(s, i + k) \in Digits
    /\ CharAt(s, i + 5) = "-"
    /\ CharAt(s, i + 8) = "-"

formatWikidataDate(dateString) ==
    IF dateString = "" THEN DateFallback
    ELSE LET hits == {i \in 1..Len(dateString) : DateMatchAt(dateString, i)} IN
         IF hits # {}
         THEN LET i == CHOOSE j \in hits : \A k \in hits : j <= k IN
              SubSeq(dateString, i + 1, i + 4)
         ELSE dateString

EncodeChar(c) == IF c = " " THEN "%20" ELSE IF c = "&" THEN "%26" ELSE c

RECURSIVE EncodeFrom(_, _)
\* the characters of s from position i on, each escaped
EncodeFrom(s, i) ==
    IF i > Len(s) THEN "" ELSE EncodeChar(CharAt(s, i)) \o EncodeFrom(s, i + 1)

\* the names of the model hold letters, spaces and apostrophes; of these
\* encodeURIComponent escapes the space
encodeURIComponent(s) == EncodeFrom(s, 1)

EntityUrl(entityId) == endpoint \o entityId \o ".json"
SearchUrl(searchTerm, language) ==
    "https://www.wikidata.org/w/api.php?action=wbsearchentities&search="
        \o encodeURIComponent(searchTerm) \o "&language=" \o language
        \o "&format=json&origin=*"

\* ------------------------------------------------------------ page elements

Unwritten == [kind |-> "initial", text |-> "", items |-> <<>>]

\* variant of hideLoading that leaves the spinner as it is
keepLoading(d) == d

showLoading(d) == [d EXCEPT !.loadingSpinner = "block", !.projectContent = "none"]
hideLoading(d) == [d EXCEPT !.loadingSpinner = "none"]
showContent(d) == [d EXCEPT !.projectContent = "block"]
showError(d) == [d EXCEPT !.projectContentHTML = "alert-danger"]

NoArtistText(name) ==
    "Nessun dato trovato su Wikidata per l'artista \"" \o name \o "\"."
NoWorkText(name) ==
    "Nessun dato trovato su Wikidata per l'opera \"" \o name \o "\"."

displayNoArtistData(d, name) ==
    [d EXCEPT !.artistWikidata =
        [kind |-> "alert-warning", text |-> NoArtistText(name), items |-> <<>>]]
displayNoWorkData(d, name) ==
    [d EXCEPT !.workWikidata =
        [kind |-> "alert-warning", text |-> NoWorkText(name), items |-> <<>>]]

\* the container's innerHTML: one wikidata-item per entry, in insertion order
renderMetadata(items) == [kind |-> "wikidata-item", text |-> "", items |-> items]

WikidataPage(id) == "https://www.wikidata.org/wiki/" \o id

\* variant of enableLink that does not clear the disabled flag
enableLinkHrefOnly(d, id) == [d EXCEPT !.viewOnWikidataHref = WikidataPage(id)]

enableLink(d, id) ==
    [d EXCEPT !.viewOnWikidataHref = WikidataPage(id), !.viewOnWikidataDisabled = FALSE]

\* ------------------------------------------------------- display data maps

Flows == {"artist", "work"}
Threads == {"init"} \cup Flows

\* (the key "Nazionalita" stands for the accented key of the source)
ArtistFields ==
    << [key |-> "Nome", how |-> "label", prop |-> ""],
       [key |-> "Descrizione", how |-> "description", prop |-> ""],
       [key |-> "Data di nascita", how |-> "date", prop |-> "P569"],
       [key |-> "Luogo di nascita", how |-> "property", prop |-> "P19"],
       [key |-> "Nazionalita", how |-> "property", prop |-> "P27"],
       [key |-> "Movimento artistico", how |-> "property", prop |-> "P135"] >>

WorkFields ==
    << [key |-> "Titolo", how |-> "label", prop |-> ""],
       [key |-> "Descrizione", how |-> "description", prop |-> ""],
       [key |-> "Data di creazione", how |-> "date", prop |-> "P571"],
       [key |-> "Tecnica", how |-> "property", prop |-> "P186"],
       [key |-> "Materiale", how |-> "property", prop |-> "P186"],
       [key |-> "Dimensioni", how |-> "property", prop |-> "P2049"],
       [key |-> "Genere", how |-> "property", prop |-> "P136"] >>

Fields(f) == IF f = "artist" THEN ArtistFields ELSE WorkFields

\* ------------------------------------------------------------ request sites

\* One site per call of fetch in the program text as it is reached at run
\* time: the search and the entity fetch of each flow, and the
\* getEntityLabelById call of each property field of each data map.
LabelSites(f) ==
    {<<f, Fields(f)[i].key>> : i \in {j \in 1..Len(Fields(f)) : Fields(f)[j].prop # ""}}
LoadSites == {<<f, r>> : f \in Flows, r \in {"search", "fetch"}}
Sites == LoadSites \cup LabelSites("artist") \cup LabelSites("work")

NoData ==
    [hasSearch |-> FALSE, search |-> <<>>,
     hasEntities |-> FALSE, entities |-> [i \in {} |-> BareEntity]]

Idle == [st |-> "idle", url |-> "", n |-> 0, data |-> NoData]

\* fetch(url) at site s: the request leaves
fetch(reqs, s, url) ==
    [reqs EXCEPT ![s] = [st |-> "fetching", url |-> url, n |-> @.n + 1, data |-> NoData]]

\* variant of getEntityCatch that fetches the URL again
getEntityRetry(reqs, s) == fetch(reqs, s, reqs[s].url)
\* getEntity's catch block, as far as the request goes: it is given up
getEntityCatch(reqs, s) == [reqs EXCEPT ![s].st = "failed", ![s].data = NoData]

\* searchEntities' catch block, as far as the request goes
searchEntitiesCatch(reqs, s) == [reqs EXCEPT ![s].st = "failed", ![s].data = NoData]

\* a request whose response has not been fully received or refused
Outstanding(r) == r.st \in {"fetching", "responded", "parsing"}

\* value of an entity variable
NullEntity == [tag |-> "null", doc |-> BareEntity]
UndefinedEntity == [tag |-> "undefined", doc |-> BareEntity]
DocEntity(doc) == [tag |-> "doc", doc |-> doc]

\* value of a results variable
NoResults == [tag |-> "unset", list |-> <<>>]
UndefinedResults == [tag |-> "undefined", list |-> <<>>]
ListResults(l) == [tag |-> "list", list |-> l]

\* JSON bodies the search endpoint answers with
ResultLists == UNION {[1..n -> {[id |-> i] : i \in Ids}] : n \in 0..MaxResults}
SearchBodies ==
    {NoData} \cup {[NoData EXCEPT !.hasSearch = TRUE, !.search = l] : l \in ResultLists}

\* JSON bodies the entity endpoint answers with for a requested id: no
\* entities member, an entities member without the id, or the document
EntityBodies(id) ==
    {NoData, [NoData EXCEPT !.hasEntities = TRUE]}
        \cup {[NoData EXCEPT !.hasEntities = TRUE, !.entities = [i \in {id} |-> doc]] :
                doc \in EntityDocs}

\* ------------------------------------------------------------------- state

VARIABLES
    artistName, workName, year,   \* ProjectDetailApp fields
    dom,                          \* the page elements the controller touches
    pc,                           \* where each async activation stands
    mq,                           \* the microtask queue
    req,                          \* per site: the request made there
    site,                         \* per activation: the site it awaits
    entityId,                     \* per activation: getEntity's parameter
    entity,                       \* per activation: getEntity's result
    results,                      \* per flow: artistResults / workResults
    flow,                         \* the flow init is in
    arg,                          \* per display: its artist / work parameter
    data,                         \* per display: the entries of data so far
    pending,                      \* per display: the value being awaited
    rejected                      \* displays whose promise rejected, unhandled

vars == <<artistName, workName, year, dom, pc, mq, req, site, entityId, entity,
          results, flow, arg, data, pending, rejected>>

appVars == <<artistName, workName, year>>

\* ?artist=..&work=..&year=.. ("" : the parameter is absent or empty)
NoParams == [artist |-> "", work |-> "", year |-> ""]
UrlParams == {NoParams, [artist |-> "Frida Kahlo", work |-> "Le due Frida", year |-> "1939"]}

\* state after `new ProjectDetailApp()`, before init(), for a page opened
\* with one of the given query strings
Constructed(params) ==
    /\ \E p \in params :
        /\ artistName = IF p.artist # "" THEN p.artist ELSE "Giuseppe Penone"
        /\ workName = IF p.work # "" THEN p.work ELSE "Albero della Vita"
        /\ year = IF p.year # "" THEN p.year ELSE "1962"
    /\ \E sp \in {"block", "none"}, ct \in {"block", "none"} :
        dom = [loadingSpinner |-> sp, projectContent |-> ct,
               projectContentHTML |-> "page",
               projectTitle |-> "", projectArtist |-> "", projectYear |-> "",
               title |-> "",
               artistWikidata |-> Unwritten, workWikidata |-> Unwritten,
               viewOnWikidataHref |-> "#", viewOnWikidataDisabled |-> TRUE]
    /\ pc = [t \in Threads |-> IF t = "init" THEN "start" ELSE "uncalled"]
    /\ mq = <<>>
    /\ req = [s \in Sites |-> Idle]
    /\ site = [t \in Threads |-> <<"", "">>]
    /\ entityId = [t \in Threads |-> ""]
    /\ entity = [t \in Threads |-> UndefinedEntity]
    /\ results = [f \in Flows |-> NoResults]
    /\ flow = "artist"
    /\ arg = [f \in Flows |-> UndefinedEntity]
    /\ data = [f \in Flows |-> <<>>]
    /\ pending = [f \in Flows |-> ""]
    /\ rejected = {}

Init == Constructed(UrlParams)

SearchTerm(f) == IF f = "artist" THEN artistName ELSE workName \o " " \o artistName

\* --------------------------------------------------------- display data maps

\* The expression of entry i of displayArtistData / displayWorkData's data
\* map, evaluated on a document: a value to await, a promise to await (its
\* getEntity already started), or, for a date whose getPropertyValue is a
\* promise, the TypeError of formatWikidataDate(promise).match raised after
\* getEntity has started.
Evaluate(f, doc, i) ==
    LET fld == Fields(f)[i]
        r == getPropertyValue(doc, fld.prop)
    IN  CASE fld.how = "label" ->
                [kind |-> "value", v |-> getLabel(doc, "it"), id |-> ""]
          [] fld.how = "description" ->
                [kind |-> "value", v |-> getDescription(doc, "it"), id |-> ""]
          [] fld.how = "date" ->
                IF r.isPromise
                THEN [kind |-> "fetchThenThrow", v |-> "", id |-> r.id]
                ELSE [kind |-> "value", v |-> formatWikidataDate(r.s), id |-> ""]
          [] OTHER ->
                IF r.isPromise
                THEN [kind |-> "fetch", v |-> "", id |-> r.id]
                ELSE [kind |-> "value", v |-> r.s, id |-> ""]

\* What a display does from the point where `dat` holds the entries built
\* so far up to its next await, its return or its throw.
Thrown == [pc |-> "rejected", pending |-> "", fetchId |-> "", rejects |-> TRUE,
           render |-> FALSE, enqueue |-> FALSE]

DisplayRun(f, ent, dat) ==
    IF ent.tag # "doc" THEN Thrown   \* entity.labels of null / undefined
    ELSE IF Len(dat) = Len(Fields(f))
    THEN [pc |-> "done", pending |-> "", fetchId |-> "", rejects |-> FALSE,
          render |-> TRUE, enqueue |-> FALSE]
    ELSE LET e == Evaluate(f, ent.doc, Len(dat) + 1) IN
         CASE e.kind = "value" ->
                [pc |-> "awaitValue", pending |-> e.v, fetchId |-> "", rejects |-> FALSE,
                 render |-> FALSE, enqueue |-> TRUE]
           [] e.kind = "fetch" ->
                [pc |-> "fetch", pending |-> "", fetchId |-> e.id, rejects |-> FALSE,
                 render |-> FALSE, enqueue |-> FALSE]
           [] OTHER ->
                [pc |-> "fetch", pending |-> "", fetchId |-> e.id, rejects |-> TRUE,
                 render |-> FALSE, enqueue |-> FALSE]

LabelSite(f, dat) == <<f, Fields(f)[Len(dat) + 1].key>>

Container(f) == IF f = "artist" THEN "artistWikidata" ELSE "workWikidata"

\* the effect of DisplayRun's outcome u on the display's own state
DisplayEffects(f, dat, u) ==
    /\ data' = [data EXCEPT ![f] = dat]
    /\ pending' = [pending EXCEPT ![f] = u.pending]
    /\ rejected' = IF u.rejects THEN rejected \cup {f} ELSE rejected
    /\ req' = IF u.fetchId # ""
              THEN fetch(req, LabelSite(f, dat), EntityUrl(u.fetchId))
              ELSE req

\* -------------------------------------------------------------- event loop

Running(t, at) == mq # <<>> /\ Head(mq) = t /\ pc[t] = at

\* what getEntity's caller does next
AfterGetEntity(t) == IF t = "init" THEN "loadEntity" ELSE "labelReturn"

\* DOMContentLoaded: init() up to the await of fetch in the artist search
Start ==
    /\ pc["init"] = "start"
    /\ mq = <<>>
    /\ dom' = [showLoading(dom) EXCEPT
                 !.projectTitle = workName,
                 !.projectArtist = artistName,
                 !.projectYear = year,
                 !.title = workName \o " - " \o artistName \o " | Biennale Eco Archive"]
    /\ flow' = "artist"
    /\ req' = fetch(req, <<"artist", "search">>, SearchUrl(SearchTerm("artist"), "it"))
    /\ site' = [site EXCEPT !["init"] = <<"artist", "search">>]
    /\ pc' = [pc EXCEPT !["init"] = "fetch"]
    /\ UNCHANGED <<appVars, mq, entityId, entity, results, arg, data, pending, rejected>>

\* the network answers or refuses a request (a macrotask: it runs only when
\* no microtask is queued)
FetchSettles(t) ==
    /\ mq = <<>>
    /\ pc[t] = "fetch"
    /\ req[site[t]].st = "fetching"
    /\ \E ok \in BOOLEAN :
        req' = [req EXCEPT ![site[t]].st = IF ok THEN "responded" ELSE "refused"]
    /\ pc' = [pc EXCEPT ![t] = "afterFetch"]
    /\ mq' = <<t>>
    /\ UNCHANGED <<appVars, dom, site, entityId, entity, results, flow, arg, data,
                   pending, rejected>>

\* the body of a response arrives and parses, or does not
JsonSettles(t) ==
    /\ mq = <<>>
    /\ pc[t] = "json"
    /\ req[site[t]].st = "parsing"
    /\ \/ req' = [req EXCEPT ![site[t]].st = "unparsable"]
       \/ \E body \in (IF site[t][2] = "search" THEN SearchBodies
                       ELSE EntityBodies(entityId[t])) :
            req' = [req EXCEPT ![site[t]].st = "parsed", ![site[t]].data = body]
    /\ pc' = [pc EXCEPT ![t] = "afterJson"]
    /\ mq' = <<t>>
    /\ UNCHANGED <<appVars, dom, site, entityId, entity, results, flow, arg, data,
                   pending, rejected>>

\* searchEntities after `await fetch(url)`: response.json() is called, or the
\* catch returns []
SearchAfterFetch ==
    /\ Running("init", "afterFetch")
    /\ site["init"][2] = "search"
    /\ IF req[site["init"]].st = "responded"
       THEN /\ req' = [req EXCEPT ![site["init"]].st = "parsing"]
            /\ pc' = [pc EXCEPT !["init"] = "json"]
            /\ mq' = Tail(mq)
            /\ UNCHANGED results
       ELSE /\ req' = searchEntitiesCatch(req, site["init"])
            /\ results' = [results EXCEPT ![flow] = ListResults(<<>>)]
            /\ pc' = [pc EXCEPT !["init"] = "loadResults"]
            /\ mq' = Append(Tail(mq), "init")
    /\ UNCHANGED <<appVars, dom, site, entityId, entity, flow, arg, data, pending, rejected>>

\* searchEntities after `await response.json()`: data.search is returned, or
\* the catch returns []
SearchAfterJson ==
    /\ Running("init", "afterJson")
    /\ site["init"][2] = "search"
    /\ LET r == req[site["init"]] IN
       IF r.st = "parsed"
       THEN /\ req' = [req EXCEPT ![site["init"]].st = "done", ![site["init"]].data = NoData]
            /\ results' = [results EXCEPT ![flow] =
                    IF r.data.hasSearch THEN ListResults(r.data.search)
                    ELSE UndefinedResults]
       ELSE /\ req' = searchEntitiesCatch(req, site["init"])
            /\ results' = [results EXCEPT ![flow] = ListResults(<<>>)]
    /\ pc' = [pc EXCEPT !["init"] = "loadResults"]
    /\ mq' = Append(Tail(mq), "init")
    /\ UNCHANGED <<appVars, dom, site, entityId, entity, flow, arg, data, pending, rejected>>

\* results.length > 0
Found(res) == Len(res.list) > 0
\* variant of FirstId that takes the last result
LastId(res) == res.list[Len(res.list)].id
\* results[0].id
FirstId(res) == res.list[1].id

\* loadArtistData / loadWorkData after `await searchEntities(..)`
LoadResults ==
    /\ Running("init", "loadResults")
    /\ LET res == results[flow] IN
       IF res.tag = "undefined"
       THEN \* undefined.length throws: the load rejects, init's catch runs
            /\ pc' = [pc EXCEPT !["init"] = "catch"]
            /\ mq' = Append(Tail(mq), "init")
            /\ results' = [results EXCEPT ![flow] = NoResults]
            /\ UNCHANGED <<dom, req, site, entityId>>
       ELSE IF Found(res)
       THEN /\ req' = fetch(req, <<flow, "fetch">>, EntityUrl(FirstId(res)))
            /\ site' = [site EXCEPT !["init"] = <<flow, "fetch">>]
            /\ entityId' = [entityId EXCEPT !["init"] = FirstId(res)]
            /\ pc' = [pc EXCEPT !["init"] = "fetch"]
            /\ mq' = Tail(mq)
            /\ UNCHANGED <<dom, results>>
       ELSE /\ dom' = IF flow = "artist" THEN displayNoArtistData(dom, artistName)
                      ELSE displayNoWorkData(dom, workName)
            /\ pc' = [pc EXCEPT !["init"] = "afterLoad"]
            /\ mq' = Append(Tail(mq), "init")
            /\ results' = [results EXCEPT ![flow] = NoResults]
            /\ UNCHANGED <<req, site, entityId>>
    /\ UNCHANGED <<appVars, entity, flow, arg, data, pending, rejected>>

\* getEntity after `await fetch(..)`: response.json() is called, or the
\* catch returns null
EntityAfterFetch(t) ==
    /\ Running(t, "afterFetch")
    /\ site[t][2] # "search"
    /\ IF req[site[t]].st = "responded"
       THEN /\ req' = [req EXCEPT ![site[t]].st = "parsing"]
            /\ pc' = [pc EXCEPT ![t] = "json"]
            /\ mq' = Tail(mq)
            /\ UNCHANGED entity
       ELSE /\ req' = getEntityCatch(req, site[t])
            /\ entity' = [entity EXCEPT ![t] = NullEntity]
            /\ pc' = [pc EXCEPT ![t] = AfterGetEntity(t)]
            /\ mq' = Append(Tail(mq), t)
    /\ UNCHANGED <<appVars, dom, site, entityId, results, flow, arg, data, pending, rejected>>

\* data.entities[entityId]; ok is FALSE when data.entities is undefined
\* and the index throws
Lookup(body, id) ==
    IF ~body.hasEntities THEN [ok |-> FALSE, value |-> NullEntity]
    ELSE IF id \in DOMAIN body.entities
    THEN [ok |-> TRUE, value |-> DocEntity(body.entities[id])]
    ELSE [ok |-> TRUE, value |-> UndefinedEntity]

\* getEntity after `await response.json()`: data.entities[entityId] is
\* returned, or the catch returns null
EntityAfterJson(t) ==
    /\ Running(t, "afterJson")
    /\ site[t][2] # "search"
    /\ LET r == req[site[t]]
           got == Lookup(r.data, entityId[t])
       IN  IF r.st = "parsed" /\ got.ok
           THEN /\ req' = [req EXCEPT ![site[t]].st = "done", ![site[t]].data = NoData]
                /\ entity' = [entity EXCEPT ![t] = got.value]
           ELSE /\ req' = getEntityCatch(req, site[t])
                /\ entity' = [entity EXCEPT ![t] = NullEntity]
    /\ pc' = [pc EXCEPT ![t] = AfterGetEntity(t)]
    /\ mq' = Append(Tail(mq), t)
    /\ UNCHANGED <<appVars, dom, site, entityId, results, flow, arg, data, pending, rejected>>

\* loadArtistData / loadWorkData after `await getEntity(..)`: the display is
\* called and runs to its first await or throw, its promise is dropped, the
\* work flow enables the link, and the load returns
LoadEntity ==
    /\ Running("init", "loadEntity")
    /\ LET ent == entity["init"]
           u == DisplayRun(flow, ent, <<>>)
       IN  /\ arg' = [arg EXCEPT ![flow] = ent]
           /\ DisplayEffects(flow, <<>>, u)
           /\ site' = IF u.fetchId # ""
                      THEN [site EXCEPT ![flow] = LabelSite(flow, <<>>)] ELSE site
           /\ entityId' = [entityId EXCEPT ![flow] = u.fetchId, !["init"] = ""]
           /\ pc' = [pc EXCEPT ![flow] = u.pc, !["init"] = "afterLoad"]
           /\ mq' = Tail(mq) \o (IF u.enqueue THEN <<flow>> ELSE <<>>) \o <<"init">>
    /\ dom' = IF flow = "work" THEN enableLink(dom, FirstId(results[flow])) ELSE dom
    \* the load returns: its locals go out of scope
    /\ results' = [results EXCEPT ![flow] = NoResults]
    /\ entity' = [entity EXCEPT !["init"] = UndefinedEntity]
    /\ UNCHANGED <<appVars, flow>>

\* init after `await this.loadArtistData()`: loadWorkData up to the await of
\* fetch in the work search
InitAfterArtist ==
    /\ Running("init", "afterLoad")
    /\ flow = "artist"
    /\ flow' = "work"
    /\ req' = fetch(req, <<"work", "search">>, SearchUrl(SearchTerm("work"), "it"))
    /\ site' = [site EXCEPT !["init"] = <<"work", "search">>]
    /\ pc' = [pc EXCEPT !["init"] = "fetch"]
    /\ mq' = Tail(mq)
    /\ UNCHANGED <<appVars, dom, entityId, entity, results, arg, data, pending, rejected>>

\* init after `await this.loadWorkData()`
InitAfterWork ==
    /\ Running("init", "afterLoad")
    /\ flow = "work"
    /\ dom' = showContent(hideLoading(dom))
    /\ pc' = [pc EXCEPT !["init"] = "done"]
    /\ mq' = Tail(mq)
    /\ UNCHANGED <<appVars, req, site, entityId, entity, results, flow, arg, data,
                   pending, rejected>>

\* init's catch block
InitCatch ==
    /\ Running("init", "catch")
    /\ dom' = showError(showContent(hideLoading(dom)))
    /\ pc' = [pc EXCEPT !["init"] = "done"]
    /\ mq' = Tail(mq)
    /\ UNCHANGED <<appVars, req, site, entityId, entity, results, flow, arg, data,
                   pending, rejected>>

\* a display after an await: the awaited value becomes the entry, and the
\* display runs on to its next await, to renderMetadata, or to a throw
DisplayResume(f) ==
    /\ Running(f, "awaitValue")
    /\ LET dat == Append(data[f], <<Fields(f)[Len(data[f]) + 1].key, pending[f]>>)
           u == DisplayRun(f, arg[f], dat)
       IN  /\ DisplayEffects(f, dat, u)
           /\ site' = IF u.fetchId # ""
                      THEN [site EXCEPT ![f] = LabelSite(f, dat)] ELSE site
           /\ entityId' = [entityId EXCEPT ![f] = u.fetchId]
           /\ pc' = [pc EXCEPT ![f] = u.pc]
           /\ mq' = Tail(mq) \o (IF u.enqueue THEN <<f>> ELSE <<>>)
           /\ dom' = IF u.render
                     THEN [dom EXCEPT ![Container(f)] = renderMetadata(dat)]
                     ELSE dom
    /\ UNCHANGED <<appVars, entity, results, flow, arg>>

\* getEntityLabelById after `await this.getEntity(entityId)`: the label, or
\* the entity id when getLabel throws on null / undefined
LabelOf(ent, id) == IF ent.tag = "doc" THEN getLabel(ent.doc, "it") ELSE id

LabelReturn(f) ==
    /\ Running(f, "labelReturn")
    /\ IF f \in rejected
       THEN \* the display that asked has already thrown: nobody awaits
            /\ pc' = [pc EXCEPT ![f] = "rejected"]
            /\ mq' = Tail(mq)
            /\ UNCHANGED pending
       ELSE /\ pending' = [pending EXCEPT ![f] = LabelOf(entity[f], entityId[f])]
            /\ pc' = [pc EXCEPT ![f] = "awaitValue"]
            /\ mq' = Append(Tail(mq), f)
    \* getEntityLabelById returns: its locals go out of scope
    /\ entity' = [entity EXCEPT ![f] = UndefinedEntity]
    /\ entityId' = [entityId EXCEPT ![f] = ""]
    /\ UNCHANGED <<appVars, dom, req, site, results, flow, arg, data, rejected>>

Next ==
    \/ Start
    \/ \E t \in Threads : FetchSettles(t)
    \/ \E t \in Threads : JsonSettles(t)
    \/ SearchAfterFetch
    \/ SearchAfterJson
    \/ LoadResults
    \/ \E t \in Threads : EntityAfterFetch(t)
    \/ \E t \in Threads : EntityAfterJson(t)
    \/ LoadEntity
    \/ InitAfterArtist
    \/ InitAfterWork
    \/ InitCatch
    \/ \E f \in Flows : DisplayResume(f)
    \/ \E f \in Flows : LabelReturn(f)

Spec == Init /\ [][Next]_vars

\* A page load opened without query parameters, on an event loop that runs
\* every queued microtask and a network that settles every request.
FairInit == Constructed({NoParams})

FairSpec == FairInit /\ [][Next]_vars /\ WF_vars(Next)

TypeOK ==
    /\ pc \in [Threads -> {"start", "uncalled", "fetch", "afterFetch", "json", "afterJson",
                           "loadResults", "loadEntity", "afterLoad", "catch", "done",
                           "awaitValue", "labelReturn", "rejected"}]
    /\ \A s \in Sites : req[s].n \in 0..1
    /\ rejected \subseteq Flows

\* ------------------------------------------------------------------ claims

RECURSIVE Total(_)
\* number of requests issued at the sites of S
Total(S) == IF S = {} THEN 0
            ELSE LET s == CHOOSE x \in S : TRUE IN req[s].n + Total(S \ {s})

FieldIndex(f, key) == CHOOSE i \in 1..Len(Fields(f)) : Fields(f)[i].key = key

\* the first claim of property p in doc holds an entity reference
EntityValued(doc, p) ==
    /\ doc.hasClaims
    /\ p \in DOMAIN doc.claims
    /\ doc.claims[p][1].mainsnak.hasDatavalue
    /\ doc.claims[p][1].mainsnak.datavalue.value.id # ""

\* C1 (as stated): one page load issues at most four requests, and only the
\* artist search, the artist entity fetch, the work search and the work
\* entity fetch, whatever the entity documents hold.
C1_AtMostFourRequests ==
    /\ Total(Sites) <= 4
    /\ \A s \in Sites : req[s].n > 0 => s \in LoadSites

\* C1 (amended): the artist search, artist fetch, work search and work fetch
\* are each issued at most once; every other request is the entity fetch of
\* a displayed property field, issued at most once for that field, and only
\* when the first claim of the field's property in the displayed entity is
\* entity-valued.
C1_RequestsBySite ==
    /\ \A s \in Sites : req[s].n <= 1
    /\ Total(LoadSites) <= 4
    /\ \A f \in Flows : \A s \in LabelSites(f) :
          req[s].n > 0 =>
             /\ arg[f].tag = "doc"
             /\ EntityValued(arg[f].doc, Fields(f)[FieldIndex(f, s[2])].prop)
    /\ \A f \in Flows :
          Total(LabelSites(f)) <=
             Cardinality({i \in 1..Len(Fields(f)) :
                            /\ Fields(f)[i].prop # ""
                            /\ arg[f].tag = "doc"
                            /\ EntityValued(arg[f].doc, Fields(f)[i].prop)})

\* C1 witness: all four load requests and two label fetches have been issued
C1_Witness ==
    /\ \A s \in LoadSites : req[s].n = 1
    /\ req[<<"artist", "Luogo di nascita">>].n = 1
    /\ req[<<"work", "Materiale">>].n = 1
    /\ Total(Sites) > 4

\* C2: at most one request is outstanding in every reachable state.
C2_Sequential == Cardinality({s \in Sites : Outstanding(req[s])}) <= 1

Settled(t) == pc[t] \in {"uncalled", "done", "rejected"}
Quiescent ==
    /\ mq = <<>>
    /\ \A t \in Threads : Settled(t)
    /\ \A s \in Sites : ~Outstanding(req[s])

\* the search or the entity fetch of flow f failed, or its fetch gave no entity
FlowFailed(f) ==
    \/ req[<<f, "search">>].st = "failed"
    \/ req[<<f, "fetch">>].st = "failed"
    \/ (req[<<f, "fetch">>].st = "done" /\ arg[f].tag # "doc")

\* C3: once the page load has quiesced, a flow one of whose requests failed
\* shows the no-data message in its container or the page shows the error
\* panel, and no promise rejection is left unhandled.
C3_FailuresDegrade ==
    Quiescent =>
        /\ \A f \in Flows :
              FlowFailed(f) =>
                 \/ dom[Container(f)].kind = "alert-warning"
                 \/ dom.projectContentHTML = "alert-danger"
        /\ rejected = {}

FailedUrls == {req[x].url : x \in {y \in Sites : req[y].st = "failed"}}

\* C4 (as stated): once a request for a URL has failed, no further request
\* for that URL is issued during the page load.
C4_NoRequestAfterFailure ==
    [][\A s \in Sites : req'[s].n > req[s].n => req'[s].url \notin FailedUrls]_vars

\* C4 (amended): the call that issued a failed request never issues it
\* again: a site whose request was refused, did not parse or failed keeps
\* its one request and never goes back to fetching.  (Another call may ask
\* for the same URL again.)
C4_NoRetryByTheCall ==
    [][\A s \in Sites :
          req[s].st \in {"refused", "unparsable", "failed"} =>
             /\ req'[s].n = req[s].n
             /\ req'[s].url = req[s].url
             /\ req'[s].st \in {"refused", "unparsable", "failed"}]_vars

\* C4 witness: the Tecnica lookup of P186 failed and the Materiale lookup
\* has asked for the same URL
C4_Witness ==
    /\ req[<<"work", "Tecnica">>].st = "failed"
    /\ req[<<"work", "Materiale">>].n = 1
    /\ req[<<"work", "Materiale">>].url = req[<<"work", "Tecnica">>].url

SettledRequest(r) == r.st \in {"done", "failed"}

\* init has left the load of flow f behind
PastLoad(f) ==
    \/ (flow = f /\ pc["init"] \in {"afterLoad", "done"})
    \/ (f = "artist" /\ flow = "work")

\* C5: in each flow the entity fetch is issued only after the flow's search
\* has returned, only for a non-empty result list and for the id of its
\* first result; an empty list (also the one a failed search returns) leads
\* to no entity fetch and to the no-data message; the work search starts
\* only after the artist search and the artist fetch have settled.
C5_SearchThenFetch ==
    /\ [][\A f \in Flows :
            req'[<<f, "fetch">>].n > req[<<f, "fetch">>].n =>
               /\ SettledRequest(req[<<f, "search">>])
               /\ results[f].tag = "list"
               /\ Len(results[f].list) > 0
               /\ req'[<<f, "fetch">>].url =
                     endpoint \o results[f].list[1].id \o ".json"]_vars
    /\ [][\A f \in Flows :
            (req[<<f, "search">>].st # "failed" /\ req'[<<f, "search">>].st = "failed")
               => results'[f] = ListResults(<<>>)]_vars
    /\ [][\A f \in Flows :
            (flow = f /\ pc["init"] = "loadResults" /\ pc'["init"] # "loadResults"
                /\ results[f] = ListResults(<<>>))
               => /\ dom'[Container(f)].kind = "alert-warning"
                  /\ req'[<<f, "fetch">>].n = 0]_vars
    /\ [](\A f \in Flows :
            (req[<<f, "search">>].st = "failed" /\ PastLoad(f))
               => /\ req[<<f, "fetch">>].n = 0
                  /\ dom[Container(f)].kind = "alert-warning")
    /\ [](req[<<"work", "search">>].n > 0 =>
            /\ SettledRequest(req[<<"artist", "search">>])
            /\ req[<<"artist", "fetch">>].st \in {"idle", "done", "failed"})

\* C5 witness: the artist search failed and the artist container shows the
\* no-data message; the work search returned two different results and the
\* work fetch is under way for the first
C5_Witness ==
    /\ req[<<"artist", "search">>].st = "failed"
    /\ dom.artistWikidata.kind = "alert-warning"
    /\ req[<<"work", "fetch">>].st = "fetching"
    /\ Len(results["work"].list) = 2
    /\ results["work"].list[1] # results["work"].list[2]

\* entry i of display f's data map has been evaluated
Evaluated(f, i) ==
    \/ i <= Len(data[f])
    \/ (i = Len(data[f]) + 1 /\ pc[f] \notin {"uncalled", "done"})

\* the value entry i evaluated to, when it is not awaited from the network
EntryValue(f, i) == IF i <= Len(data[f]) THEN data[f][i][2] ELSE pending[f]

FirstValue(doc, p) == doc.claims[p][1].mainsnak.datavalue.value
HasValue(doc, p) ==
    doc.hasClaims /\ p \in DOMAIN doc.claims /\ doc.claims[p][1].mainsnak.hasDatavalue

\* the stored scalar of property p, or the fallback
StoredScalar(doc, p) ==
    IF ~HasValue(doc, p) THEN "Non specificato"
    ELSE LET v == FirstValue(doc, p)
             members == {v.text, v.amount, v.time} \ {""}
         IN  IF v.isString THEN v.str
             ELSE IF members # {} THEN CHOOSE m \in members : TRUE
             ELSE "Non specificato"

PropertyFields(f) == {i \in 1..Len(Fields(f)) : Fields(f)[i].how = "property"}

\* C6 (as stated): on every entity document getLabel, getDescription and
\* getPropertyValue return a plain string, the stored value or the fallback,
\* and issue no network request.
C6_PureAndTotal ==
    \A f \in Flows : arg[f].tag = "doc" =>
        \A i \in 1..Len(Fields(f)) : (Fields(f)[i].prop # "" /\ Evaluated(f, i)) =>
            /\ ~getPropertyValue(arg[f].doc, Fields(f)[i].prop).isPromise
            /\ req[<<f, Fields(f)[i].key>>].n = 0

\* C6 (amended): getLabel and getDescription return the stored Italian
\* value, or their fallback when it is absent, and issue no request.
\* getPropertyValue returns a plain string and issues no request when the
\* first claim of the property is not entity-valued: the stored string,
\* text, amount or time, and 'Non specificato' when the claim, its datavalue
\* or such a member is absent.  When the first claim is entity-valued it
\* returns a promise and has issued the entity fetch for the referenced id.
C6_Helpers ==
    \A f \in Flows : arg[f].tag = "doc" =>
        LET doc == arg[f].doc IN
        /\ Evaluated(f, 1) =>
              EntryValue(f, 1) =
                 IF doc.hasLabels /\ "it" \in DOMAIN doc.labels
                 THEN doc.labels["it"].value ELSE "Informazione non disponibile"
        /\ Evaluated(f, 2) =>
              EntryValue(f, 2) =
                 IF doc.hasDescriptions /\ "it" \in DOMAIN doc.descriptions
                 THEN doc.descriptions["it"].value ELSE "Descrizione non disponibile"
        /\ \A i \in PropertyFields(f) : Evaluated(f, i) =>
              LET p == Fields(f)[i].prop
                  r == req[<<f, Fields(f)[i].key>>]
              IN  IF EntityValued(doc, p)
                  THEN /\ r.n = 1
                       /\ r.url = endpoint \o FirstValue(doc, p).id \o ".json"
                  ELSE /\ r.n = 0
                       /\ EntryValue(f, i) = StoredScalar(doc, p)
        /\ Evaluated(f, 3) =>
              req[<<f, Fields(f)[3].key>>].n =
                 IF EntityValued(doc, Fields(f)[3].prop) THEN 1 ELSE 0

\* C6 witness: the artist display has read an entity-valued property of one
\* document and the work display has rendered the scalars of another
C6_Witness ==
    /\ arg["artist"] = DocEntity(FullEntity)
    /\ req[<<"artist", "Nazionalita">>].n = 1
    /\ arg["work"] = DocEntity(ScalarEntity)
    /\ dom.workWikidata.kind = "wikidata-item"

\* C7: when init reveals the content panel on its success path, both
\* metadata containers have been written.
C7_RevealAfterRender ==
    (pc["init"] = "done" /\ dom.projectContentHTML = "page" /\ dom.projectContent = "block")
        => /\ dom.artistWikidata # Unwritten
           /\ dom.workWikidata # Unwritten

DateProperty(f) == IF f = "artist" THEN "P569" ELSE "P571"

\* C8: a rendered date field shows the four-digit year of a time-valued
\* claim of the form +YYYY-MM-DD.., and 'Data non disponibile' when the
\* entity has no claim for the date property.
C8_DateFields ==
    \A f \in Flows :
        (dom[Container(f)].kind = "wikidata-item" /\ arg[f].tag = "doc") =>
            LET doc == arg[f].doc
                p == DateProperty(f)
                shown == dom[Container(f)].items[3][2]
            IN  /\ (HasValue(doc, p) /\ DateMatchAt(FirstValue(doc, p).time, 1))
                       => shown = SubSeq(FirstValue(doc, p).time, 2, 5)
                /\ ~(doc.hasClaims /\ p \in DOMAIN doc.claims)
                       => shown = "Data non disponibile"

\* C9: under fair scheduling init completes; when it has, the spinner is
\* hidden and the content panel displayed; and from showLoading on the
\* spinner and the content panel are never both displayed.
C9_InitCompletes ==
    /\ <>(pc["init"] = "done")
    /\ [](pc["init"] = "done" =>
            dom.loadingSpinner = "none" /\ dom.projectContent = "block")
    /\ [](pc["init"] # "start" =>
            ~(dom.loadingSpinner = "block" /\ dom.projectContent = "block"))

\* C9 witness: init has completed through its catch block
C9_Witness ==
    /\ pc["init"] = "done"
    /\ dom.projectContentHTML = "alert-danger"
    /\ dom.loadingSpinner = "none"
    /\ dom.projectContent = "block"

LinkUntouched == dom.viewOnWikidataHref = "#" /\ dom.viewOnWikidataDisabled = TRUE

====
